---- MODULE Spec2Model ----
(***************************************************************************)
(* A model of gogetcrawl: package common (DoRequest, Get, SaveFiles) and   *)
(* package commoncrawl (New, GetIndexes, GetNumPagesIndex, ParseResponse,  *)
(* GetPagesIndex, GetPages, FetchPages, filterIndices, GetFile).           *)
(*                                                                         *)
(* The specifications share the variables:                                 *)
(*   SpecGet        one call of common.Get, attempt by attempt             *)
(*   SpecDoRequest  one call of common.DoRequest                           *)
(*   Spec           New, then one call of GetNumPages, GetPages or         *)
(*                  FetchPages on the constructed provider                 *)
(*   SpecFilter     one call of filterIndices                              *)
(*   SpecParse      one call of ParseResponse                              *)
(*   SpecGetFile    one call of GetFile                                    *)
(*   SpecPipe       FetchPages feeding SaveFiles over the two channels,    *)
(*                  with fairness                                          *)
(***************************************************************************)
EXTENDS Integers, Sequences, FiniteSets, TLC

\* ------------------------------------------------------------------ bounds
\* largest maxRetries a call of Get is given
MaxRetriesBound == 3
\* largest number of snapshots the catalog holds
MaxIdx == 2
\* largest "pages" value the page-count endpoint answers
MaxPages == 2
\* largest config.Limit
MaxLimit == 2
\* largest request timeout, in seconds
MaxTimeout == 2
\* longest response handed to ParseResponse on its own, in bytes
MaxBody == 6
\* longest Offset and Length text of a record handed to GetFile, in characters
MaxDigits == 2
\* the largest value of Go's int, scaled down (the build's is 2^63 - 1)
IntMax == 20

\* ------------------------------------------------------------------ bytes
\* A response body is a sequence of bytes.  "A" and "B" stand for the text of
\* a JSON object up to its closing brace (two different captures), "}" closes
\* it, "x" is any byte that is no JSON, NL is the line terminator.
NL == "NL"
RecKeys == {"A", "B"}
Bytes == RecKeys \cup {"}", "x", NL}

\* The NDJSON text of a sequence of captures, every line newline-terminated.
RECURSIVE Encode(_)
Encode(keys) ==
    IF keys = << >> THEN << >>
    ELSE << Head(keys), "}", NL >> \o Encode(Tail(keys))

\* bytes.Split(s, "\n"): the pieces between the separators, empty ones kept.
RECURSIVE SplitLines(_, _)
SplitLines(s, cur) ==
    IF s = << >> THEN << cur >>
    ELSE IF Head(s) = NL THEN << cur >> \o SplitLines(Tail(s), << >>)
    ELSE SplitLines(Tail(s), Append(cur, Head(s)))

\* jsoniter.Unmarshal(line, &indexVal): a line decodes when it is one whole
\* JSON object.
LineDecodes(line) == Len(line) = 2 /\ line[1] \in RecKeys /\ line[2] = "}"

\* ------------------------------------------------------- HTTP attempts
\* What one client.Get(url) can produce: (nil, err) on a transport failure;
\* (resp, err) with a closed body when the redirect policy fails; (resp, nil)
\* otherwise, with the status, the bytes the body delivers and whether
\* reading the body ends in an error.
NilResp == [kind |-> "nil", status |-> 0, body |-> << >>, readErr |-> FALSE]
TransportErr == [kind |-> "err", status |-> 0, body |-> << >>, readErr |-> FALSE]
RedirectErr == [kind |-> "errResp", status |-> 302, body |-> << >>, readErr |-> TRUE]
Responses(statuses, bodies) ==
    [kind : {"resp"}, status : statuses, body : bodies, readErr : BOOLEAN]

GetStatuses == {200, 404}
GetBodies == {<< >>, Encode(<<"A">>)}
AttemptOutcomes == {TransportErr, RedirectErr} \cup Responses(GetStatuses, GetBodies)

\* ---------------------------------------------------------------- state
VARIABLES
    \* common.Get
    gpc, maxRetries, i, resp, err, attempts, sleeps, ret,
    \* common.DoRequest
    dpc, request, dout, doAttempts, dret,
    \* the provider: CommonCrawl.indexes, the call in progress and its locals
    pc, op, crash, indexes, config, index, idxs, idxPos,
    pages, page, numResults, response, parsedResponse, results, pret,
    \* what the servers answered and what the call did, kept for the properties
    httpEnd, upPages, fetched, upstream, failure, attempted, counts,
    \* the two channels of FetchPages: what was sent on them
    resultsSent, recordsSent, errorsSent, lastBatch, pageSends, pageErrs,
    \* CommonCrawl.GetFile: the record it is given and what it returns
    fpc, cdx, fret,
    \* common.SaveFiles: its position, the batches it has received, the batch
    \* it ranges over and the index of the record at hand; for that batch, one
    \* entry per call of GetFile: the record, the failure met on it and the
    \* errors sent for it
    spc, received, resBatch, resPos, gfLog,
    \* the two channels: open, or closed and by whom
    resultsCh, errorsCh

getVars == << gpc, maxRetries, i, resp, err, attempts, sleeps, ret >>
doVars == << dpc, request, dout, doAttempts, dret >>
ccVars == << pc, op, crash, indexes, config, index, idxs, idxPos,
            pages, page, numResults, response, parsedResponse, results, pret >>
histVars == << httpEnd, upPages, fetched, upstream, failure, attempted, counts >>
chanVars == << resultsSent, recordsSent, errorsSent, lastBatch, pageSends, pageErrs >>
provVars == << ccVars, histVars, chanVars >>
fileVars == << fpc, cdx, fret >>
sinkVars == << spc, received, resBatch, resPos, gfLog >>
lifeVars == << resultsCh, errorsCh >>
vars == << getVars, doVars, provVars, fileVars, sinkVars, lifeVars >>

\* ------------------------------------------------------------ common.Get
NoRet == [panic |-> FALSE, data |-> << >>, err |-> FALSE]

\* the condition of the break: err == nil && resp.StatusCode == 200
AttemptOk(o) == o.kind = "resp" /\ o.status = 200

\* a faulty variant: the same pause after every attempt
BackoffConst(n) == 1
\* time.Sleep(time.Second * time.Duration(i+1)), in seconds
Backoff(n) == n + 1

\* defer resp.Body.Close(); return io.ReadAll(resp.Body)
\* resp is nil when no attempt was made or the last one failed in transport:
\* reading resp.Body then is a nil pointer dereference.
GetReturn(r) ==
    IF r.kind = "nil" THEN [panic |-> TRUE, data |-> << >>, err |-> FALSE]
    ELSE [panic |-> FALSE, data |-> r.body, err |-> r.readErr]

GetIdle ==
    /\ gpc = "idle" /\ maxRetries = 0 /\ i = 0 /\ resp = NilResp /\ err = FALSE
    /\ attempts = << >> /\ sleeps = << >> /\ ret = NoRet

DoIdle ==
    /\ dpc = "idle" /\ request = [url |-> "", timeout |-> 0, headers |-> << >>]
    /\ dout = [kind |-> "err", status |-> 0, body |-> << >>, bodyNil |-> TRUE]
    /\ doAttempts = 0 /\ dret = [data |-> << >>, isNil |-> TRUE, err |-> "nil"]

NoCdx == [Offset |-> << >>, Length |-> << >>, Filename |-> ""]
NoFret == [data |-> << >>, isNil |-> TRUE, err |-> "nil"]
FileIdle == fpc = "idle" /\ cdx = NoCdx /\ fret = NoFret

SinkRest == received = 0 /\ resBatch = << >> /\ resPos = 0 /\ gfLog = << >>
SinkIdle == spc = "idle" /\ SinkRest

ChansOpen == resultsCh = "open" /\ errorsCh = "open"

\* --------------------------------------------------- the provider's data
\* time.Time values are days; 0 is the zero time (IsZero).
MaxDate == MaxIdx + 1
Dates == 0..MaxDate

\* latestIndex: the k-th snapshot of the catalog, newest first.
Snapshot(k) == [Id |-> k, From |-> MaxIdx - k + 1, To |-> MaxIdx - k + 2]
CatalogOf(n) == [k \in 1..n |-> Snapshot(k)]

\* common.RequestConfig, the fields the calls branch on
Configs == [SinglePage : BOOLEAN, Limit : 0..MaxLimit, FromDate : Dates, ToDate : Dates]
NoConfig == [SinglePage |-> FALSE, Limit |-> 0, FromDate |-> 0, ToDate |-> 0]

\* a JSON document: valid tells whether jsoniter.Unmarshal accepts it
BadCatalog == [valid |-> FALSE, list |-> << >>]
CatalogDocs == {BadCatalog} \cup {[valid |-> TRUE, list |-> CatalogOf(n)] : n \in 0..MaxIdx}
BadCount == [valid |-> FALSE, pages |-> 0]
CountDocs == {BadCount} \cup [valid : {TRUE}, pages : 0..MaxPages]

\* the page bodies the index server answers with
KeySeqs == {<<"A">>, <<"B", "A">>}
PageBodies == {<< >>, <<"x", NL>>} \cup {Encode(ks) : ks \in KeySeqs}
WellFormed(body) == \E ks \in KeySeqs : Encode(ks) = body
Upstream(body) == CHOOSE ks \in KeySeqs : Encode(ks) = body

\* How the loop of common.Get can end for a caller, by endpoint: without a
\* response (no attempt was made, or the last one failed in transport), with
\* the response of a failed redirect, or with a response of some status
\* whose body reads completely or breaks off.
LoopEnds(empty, bodies, broken) ==
    { [kind |-> "nil", status |-> 0, body |-> empty, readErr |-> FALSE],
      [kind |-> "errResp", status |-> 302, body |-> empty, readErr |-> TRUE] }
    \cup [kind : {"resp"}, status : GetStatuses, body : bodies, readErr : {FALSE}]
    \cup [kind : {"resp"}, status : {200}, body : broken, readErr : {TRUE}]

CatalogEnds == LoopEnds(BadCatalog, CatalogDocs, {BadCatalog})
CountEnds == LoopEnds(BadCount, CountDocs, {BadCount})
PageEnds == LoopEnds(<< >>, PageBodies, {<< >>, Encode(<<"A">>)})
NoEnd == [kind |-> "nil", status |-> 0, body |-> << >>, readErr |-> FALSE]

NilBatch == [isNil |-> TRUE, recs |-> << >>]
NoPret == [results |-> << >>, n |-> 0, err |-> "nil"]
NoFailure == [kind |-> "none", page |-> 0]

ProvRest ==
    /\ op = "none" /\ crash = "none" /\ indexes = << >>
    /\ config = NoConfig /\ index = 0 /\ idxs = << >> /\ idxPos = 0
    /\ pages = 0 /\ page = 0 /\ numResults = 0 /\ response = << >>
    /\ parsedResponse = NilBatch /\ results = << >> /\ pret = NoPret
    /\ httpEnd = NoEnd /\ upPages = 0 /\ fetched = << >> /\ upstream = << >>
    /\ failure = NoFailure /\ attempted = {} /\ counts = << >>
    /\ resultsSent = 0 /\ recordsSent = 0 /\ errorsSent = 0
    /\ lastBatch = NilBatch /\ pageSends = 0 /\ pageErrs = 0

ProvIdle == pc = "idle" /\ ProvRest

GetInit ==
    /\ gpc = "loop" /\ maxRetries \in 0..MaxRetriesBound
    /\ i = 0 /\ resp = NilResp /\ err = FALSE
    /\ attempts = << >> /\ sleeps = << >> /\ ret = NoRet

\* one iteration that ends in the break
GetAttemptOk ==
    /\ gpc = "loop" /\ i < maxRetries
    /\ \E o \in AttemptOutcomes :
        /\ AttemptOk(o)
        /\ resp' = o /\ err' = FALSE
        /\ attempts' = Append(attempts, o)
    /\ gpc' = "exit"
    /\ UNCHANGED << maxRetries, i, sleeps, ret, doVars, provVars, fileVars, sinkVars, lifeVars >>

\* one iteration that logs the failure, sleeps and goes round again
GetAttemptFail ==
    /\ gpc = "loop" /\ i < maxRetries
    /\ \E o \in AttemptOutcomes :
        /\ ~AttemptOk(o)
        /\ resp' = (IF o.kind = "err" THEN NilResp ELSE o)
        /\ err' = (o.kind # "resp")
        /\ attempts' = Append(attempts, o)
    /\ sleeps' = Append(sleeps, Backoff(i))
    /\ i' = i + 1
    /\ UNCHANGED << gpc, maxRetries, ret, doVars, provVars, fileVars, sinkVars, lifeVars >>

\* the loop condition fails
GetExhausted ==
    /\ gpc = "loop" /\ ~(i < maxRetries)
    /\ gpc' = "exit"
    /\ UNCHANGED << maxRetries, i, resp, err, attempts, sleeps, ret, doVars, provVars, fileVars, sinkVars, lifeVars >>

\* the two statements after the loop
GetExit ==
    /\ gpc = "exit"
    /\ ret' = GetReturn(resp)
    /\ gpc' = (IF ret'.panic THEN "panic" ELSE "returned")
    /\ UNCHANGED << maxRetries, i, resp, err, attempts, sleeps, doVars, provVars, fileVars, sinkVars, lifeVars >>

GetNext == GetAttemptOk \/ GetAttemptFail \/ GetExhausted \/ GetExit

InitGet == GetInit /\ DoIdle /\ ProvIdle /\ FileIdle /\ SinkIdle /\ ChansOpen
SpecGet == InitGet /\ [][GetNext]_vars

\* ------------------------------------------------------ common.DoRequest
Status500Error == "Server returned 500 status response. (Slow down)"
Status503Error == "Server returned 503 status response"

\* What one client.DoTimeout(req, resp, timeout) can produce: an error, or a
\* response with a status and a body.  resp.Body() of a response without body
\* bytes is nil or an empty non-nil slice, depending on the buffer the pooled
\* response object holds.
DoStatuses == {200, 404, 500, 503}
DoBodies == {<<"x">>, Encode(<<"A">>)}
DoErr == [kind |-> "err", status |-> 0, body |-> << >>, bodyNil |-> TRUE]
DoOutcomes ==
    {DoErr}
    \cup [kind : {"resp"}, status : DoStatuses, body : DoBodies, bodyNil : {FALSE}]
    \cup [kind : {"resp"}, status : DoStatuses, body : {<< >>}, bodyNil : BOOLEAN]

DoRet(data, isNil, e) == [data |-> data, isNil |-> isNil, err |-> e]

\* a faulty variant: the 503 case drops the body
DoRequest503Nil(o) ==
    IF o.kind = "err" THEN DoRet(<< >>, TRUE, "Error making request")
    ELSE IF o.status = 500 THEN DoRet(<< >>, TRUE, Status500Error)
    ELSE IF o.status = 503 THEN DoRet(<< >>, TRUE, Status503Error)
    ELSE IF Len(o.body) > 0 THEN DoRet(o.body, FALSE, "nil")
    ELSE IF o.status # 200 THEN DoRet(<< >>, TRUE, "Got status response")
    ELSE IF o.bodyNil THEN DoRet(<< >>, TRUE, "Response body is empty")
    ELSE DoRet(o.body, FALSE, "nil")

\* The statements after client.DoTimeout, on its outcome o.
DoRequest(o) ==
    IF o.kind = "err" THEN DoRet(<< >>, TRUE, "Error making request")
    ELSE IF o.status = 500 THEN DoRet(<< >>, TRUE, Status500Error)
    ELSE IF o.status = 503 THEN DoRet(o.body, o.bodyNil, Status503Error)
    ELSE IF Len(o.body) > 0 THEN DoRet(o.body, FALSE, "nil")
    ELSE IF o.status # 200 THEN DoRet(<< >>, TRUE, "Got status response")
    ELSE IF o.bodyNil THEN DoRet(<< >>, TRUE, "Response body is empty")
    ELSE DoRet(o.body, FALSE, "nil")

\* the arguments of the calls of DoRequest
Urls == {"u1", "u2"}
HeaderSets == {<< >>, << <<"Range", "bytes=0-1">> >>}

DoInit ==
    /\ dpc = "call"
    /\ request \in [url : Urls, timeout : 1..MaxTimeout, headers : HeaderSets]
    /\ dout = DoErr /\ doAttempts = 0 /\ dret = DoRet(<< >>, TRUE, "nil")

\* the whole function: the request is built, sent once, and classified
DoRequestCall ==
    /\ dpc = "call"
    /\ \E o \in DoOutcomes :
        /\ dout' = o
        /\ dret' = DoRequest(o)
    /\ doAttempts' = doAttempts + 1
    /\ dpc' = "returned"
    /\ UNCHANGED << request, getVars, provVars, fileVars, sinkVars, lifeVars >>

DoNext == DoRequestCall

InitDoRequest == DoInit /\ GetIdle /\ ProvIdle /\ FileIdle /\ SinkIdle /\ ChansOpen
SpecDoRequest == InitDoRequest /\ [][DoNext]_vars


\* ------------------------------------------------ commoncrawl: functions
Provider == "CommonCrawl"

\* ParseResponse: the error for an empty response; otherwise the response
\* without its last byte is split at the newlines and every line is decoded,
\* the first line that does not decode failing the whole page; each record's
\* Source is set to the provider.
CdxResponse(line) == [key |-> line[1], Source |-> Provider]
ParseLines(bs) == SplitLines(SubSeq(bs, 1, Len(bs) - 1), << >>)
\* (a faulty variant first: the last byte is not cut off before the split)
ParseResponseKeepLast(bs) ==
    IF Len(bs) = 0 THEN [isNil |-> TRUE, recs |-> << >>, err |-> "Empty response provided"]
    ELSE LET lines == SplitLines(bs, << >>) IN
         IF \E k \in 1..Len(lines) : ~LineDecodes(lines[k])
         THEN [isNil |-> TRUE, recs |-> << >>, err |-> "Cannot decode JSON line"]
         ELSE [isNil |-> FALSE,
               recs |-> [k \in 1..Len(lines) |-> CdxResponse(lines[k])],
               err |-> "nil"]
ParseResponse(bs) ==
    IF Len(bs) = 0 THEN [isNil |-> TRUE, recs |-> << >>, err |-> "Empty response provided"]
    ELSE LET lines == ParseLines(bs) IN
         IF \E k \in 1..Len(lines) : ~LineDecodes(lines[k])
         THEN [isNil |-> TRUE, recs |-> << >>, err |-> "Cannot decode JSON line"]
         ELSE [isNil |-> FALSE,
               recs |-> [k \in 1..Len(lines) |-> CdxResponse(lines[k])],
               err |-> "nil"]

\* GetNumPagesIndex, on the way the loop of its common.Get ends
GetNumPagesIndex(e) ==
    LET g == GetReturn(e) IN
    IF g.panic THEN [panic |-> TRUE, pages |-> 0, err |-> "nil"]
    ELSE IF g.err THEN [panic |-> FALSE, pages |-> 0, err |-> "Request error"]
    ELSE IF ~g.data.valid THEN [panic |-> FALSE, pages |-> 0, err |-> "JSON decode error"]
    ELSE [panic |-> FALSE, pages |-> g.data.pages, err |-> "nil"]

\* GetIndexes, on the way the loop of its common.Get ends
GetIndexes(e) ==
    LET g == GetReturn(e) IN
    IF g.panic THEN [panic |-> TRUE, list |-> << >>, err |-> "nil"]
    ELSE IF g.err THEN [panic |-> FALSE, list |-> << >>, err |-> "response read error"]
    ELSE IF ~g.data.valid THEN [panic |-> FALSE, list |-> << >>, err |-> "Cannot get latest index ID"]
    ELSE [panic |-> FALSE, list |-> g.data.list, err |-> "nil"]

\* two faulty variants: > for >=, and the test for Limit != 0 left out
LimitReachedGt(n, limit) == limit # 0 /\ n > limit
LimitReachedNoZero(n, limit) == n >= limit
\* config.Limit != 0 && uint(numResults) >= config.Limit
LimitReached(n, limit) == limit # 0 /\ n >= limit

\* filterIndices: the first snapshot when no date is set (an index out of
\* range when there is none), else the snapshots neither date excludes
IsZero(t) == t = 0
Excluded(cfg, s) ==
    \/ ~IsZero(cfg.FromDate) /\ cfg.FromDate > s.From
    \/ ~IsZero(cfg.ToDate) /\ cfg.ToDate < s.To
filterIndices(cfg, ixs) ==
    IF IsZero(cfg.FromDate) /\ IsZero(cfg.ToDate)
    THEN IF ixs = << >> THEN [panic |-> TRUE, ids |-> << >>]
         ELSE [panic |-> FALSE, ids |-> << ixs[1].Id >>]
    ELSE LET kept == SelectSeq(ixs, LAMBDA s : ~Excluded(cfg, s)) IN
         [panic |-> FALSE, ids |-> [k \in 1..Len(kept) |-> kept[k].Id]]

\* a page request that did not end in a completely read HTTP 200 response
FetchFailed(e) == ~(e.kind = "resp" /\ e.status = 200 /\ ~e.readErr)

\* ------------------------------------------------------------------- New
New ==
    /\ pc = "new"
    /\ \E e \in CatalogEnds :
        LET r == GetIndexes(e) IN
        IF r.panic THEN
            /\ pc' = "panic" /\ crash' = "nil response"
            /\ UNCHANGED indexes
        ELSE IF r.err # "nil" THEN
            /\ pc' = "failed"
            /\ UNCHANGED << crash, indexes >>
        ELSE
            /\ indexes' = r.list /\ pc' = "ready"
            /\ UNCHANGED crash
    /\ UNCHANGED << op, config, index, idxs, idxPos, pages, page, numResults,
                    response, parsedResponse, results, pret >>
    /\ UNCHANGED << histVars, chanVars, getVars, doVars,
                    fileVars, sinkVars, lifeVars >>

\* ----------------------------------------------------------- GetNumPages
CallGetNumPages ==
    /\ pc = "ready"
    /\ op' = "GetNumPages"
    /\ IF indexes = << >> THEN
            /\ pc' = "panic" /\ crash' = "index out of range"
            /\ UNCHANGED << index, pret, upPages >>
       ELSE
            /\ index' = indexes[1].Id
            /\ \E e \in CountEnds :
                LET r == GetNumPagesIndex(e) IN
                IF r.panic THEN
                    /\ pc' = "panic" /\ crash' = "nil response"
                    /\ UNCHANGED << pret, upPages >>
                ELSE
                    /\ pret' = [results |-> << >>, n |-> r.pages, err |-> r.err]
                    /\ upPages' = e.body.pages
                    /\ pc' = "returned"
                    /\ UNCHANGED crash
    /\ UNCHANGED << indexes, config, idxs, idxPos, pages, page, numResults,
                    response, parsedResponse, results >>
    /\ UNCHANGED << httpEnd, fetched, upstream, failure, attempted, counts >>
    /\ UNCHANGED << chanVars, getVars, doVars,
                    fileVars, sinkVars, lifeVars >>

\* ------------------------------------------------ GetPages, GetPagesIndex
CallGetPages ==
    /\ pc = "ready"
    /\ op' = "GetPages"
    /\ \E cfg \in {c \in Configs : IsZero(c.FromDate) /\ IsZero(c.ToDate)} :
        config' = cfg
    /\ IF indexes = << >> THEN
            /\ pc' = "panic" /\ crash' = "index out of range"
            /\ UNCHANGED index
       ELSE
            /\ index' = indexes[1].Id /\ pc' = "gp_count"
            /\ UNCHANGED crash
    /\ UNCHANGED << indexes, idxs, idxPos, pages, page, numResults,
                    response, parsedResponse, results, pret >>
    /\ UNCHANGED << histVars, chanVars, getVars, doVars,
                    fileVars, sinkVars, lifeVars >>

\* the page count: 1 for a single page, else the page-count query
GPI_Count ==
    /\ pc = "gp_count"
    /\ IF config.SinglePage THEN
            /\ pages' = 1 /\ upPages' = 1 /\ pc' = "gp_page"
            /\ UNCHANGED << crash, pret, failure >>
       ELSE \E e \in CountEnds :
            LET r == GetNumPagesIndex(e) IN
            /\ upPages' = e.body.pages
            /\ failure' = IF FetchFailed(e) \/ ~e.body.valid
                          THEN [kind |-> "count", page |-> 0] ELSE failure
            /\ IF r.panic THEN
                    /\ pc' = "panic" /\ crash' = "nil response"
                    /\ UNCHANGED << pages, pret >>
               ELSE IF r.err # "nil" THEN
                    /\ pret' = [results |-> << >>, n |-> 0, err |-> r.err]
                    /\ pc' = "returned"
                    /\ UNCHANGED << pages, crash >>
               ELSE
                    /\ pages' = r.pages /\ pc' = "gp_page"
                    /\ UNCHANGED << crash, pret >>
    /\ page' = 0 /\ numResults' = 0 /\ results' = << >>
    /\ UNCHANGED << op, indexes, config, index, idxs, idxPos, response, parsedResponse >>
    /\ UNCHANGED << httpEnd, fetched, upstream, attempted, counts >>
    /\ UNCHANGED << chanVars, getVars, doVars,
                    fileVars, sinkVars, lifeVars >>

\* one iteration of the page loop
GPI_Page ==
    /\ pc = "gp_page" /\ page < pages
    /\ fetched' = Append(fetched, page)
    /\ \E e \in PageEnds :
        LET g == GetReturn(e)
            p == ParseResponse(g.data)
        IN
        /\ httpEnd' = e
        /\ failure' = IF failure.kind # "none" THEN failure
                      ELSE IF FetchFailed(e) THEN [kind |-> "request", page |-> page]
                      ELSE IF ~WellFormed(e.body) THEN [kind |-> "decode", page |-> page]
                      ELSE failure
        /\ upstream' = IF ~FetchFailed(e) /\ WellFormed(e.body)
                       THEN upstream \o Upstream(e.body) ELSE upstream
        /\ IF g.panic THEN
                /\ pc' = "panic" /\ crash' = "nil response"
                /\ UNCHANGED << page, numResults, response, parsedResponse, results, pret >>
           ELSE IF g.err THEN
                /\ response' = g.data
                /\ pret' = [results |-> results, n |-> 0, err |-> "Request error"]
                /\ pc' = "returned"
                /\ UNCHANGED << crash, page, numResults, parsedResponse, results >>
           ELSE IF p.err # "nil" THEN
                /\ response' = g.data
                /\ parsedResponse' = [isNil |-> p.isNil, recs |-> p.recs]
                /\ pret' = [results |-> results, n |-> 0, err |-> "Cannot parse response"]
                /\ pc' = "returned"
                /\ UNCHANGED << crash, page, numResults, results >>
           ELSE
                /\ response' = g.data
                /\ parsedResponse' = [isNil |-> p.isNil, recs |-> p.recs]
                /\ results' = results \o p.recs
                /\ numResults' = numResults + Len(p.recs)
                /\ IF LimitReached(numResults', config.Limit)
                   THEN pc' = "gp_break" /\ UNCHANGED page
                   ELSE pc' = "gp_page" /\ page' = page + 1
                /\ UNCHANGED << crash, pret >>
    /\ UNCHANGED << op, indexes, config, index, idxs, idxPos, pages >>
    /\ UNCHANGED << upPages, attempted, counts >>
    /\ UNCHANGED << chanVars, getVars, doVars,
                    fileVars, sinkVars, lifeVars >>

\* after the loop: return results, nil
GPI_Return ==
    /\ \/ pc = "gp_break"
       \/ pc = "gp_page" /\ ~(page < pages)
    /\ pret' = [results |-> results, n |-> 0, err |-> "nil"]
    /\ pc' = "returned"
    /\ UNCHANGED << op, crash, indexes, config, index, idxs, idxPos, pages, page,
                    numResults, response, parsedResponse, results >>
    /\ UNCHANGED << histVars, chanVars, getVars, doVars,
                    fileVars, sinkVars, lifeVars >>

\* ------------------------------------------------------------ FetchPages
\* the call: the range expression cc.filterIndices(config) is evaluated once
CallFetchPages ==
    /\ pc = "ready"
    /\ op' = "FetchPages"
    /\ \E cfg \in Configs :
        LET f == filterIndices(cfg, indexes) IN
        /\ config' = cfg
        /\ IF f.panic THEN
                /\ pc' = "panic" /\ crash' = "index out of range"
                /\ UNCHANGED << idxs, idxPos >>
           ELSE
                /\ idxs' = f.ids /\ idxPos' = 1 /\ pc' = "fp_snapshot"
                /\ UNCHANGED crash
    /\ numResults' = 0
    /\ UNCHANGED << indexes, index, pages, page, response, parsedResponse, results, pret >>
    /\ UNCHANGED << histVars, chanVars, getVars, doVars,
                    fileVars, sinkVars, lifeVars >>

\* the next snapshot: its page count, up to the send of the count's error
FP_Snapshot ==
    /\ pc = "fp_snapshot" /\ idxPos <= Len(idxs)
    /\ index' = idxs[idxPos]
    /\ IF config.SinglePage THEN
            /\ pages' = 1 /\ counts' = Append(counts, 1) /\ pc' = "fp_page"
            /\ UNCHANGED crash
       ELSE \E e \in CountEnds :
            LET r == GetNumPagesIndex(e) IN
            IF r.panic THEN
                /\ pc' = "panic" /\ crash' = "nil response"
                /\ UNCHANGED << pages, counts >>
            ELSE
                /\ pages' = r.pages /\ counts' = Append(counts, r.pages)
                /\ pc' = IF r.err # "nil" THEN "fp_sendCountErr" ELSE "fp_page"
                /\ UNCHANGED crash
    /\ page' = 0
    /\ UNCHANGED << op, indexes, config, idxs, idxPos, numResults, response,
                    parsedResponse, results, pret >>
    /\ UNCHANGED << httpEnd, upPages, fetched, upstream, failure, attempted >>
    /\ UNCHANGED << chanVars, getVars, doVars,
                    fileVars, sinkVars, lifeVars >>

\* errors <- err, for the page count
FP_SendCountErr ==
    /\ pc = "fp_sendCountErr"
    /\ errorsSent' = errorsSent + 1
    /\ pc' = "fp_page"
    /\ UNCHANGED << op, crash, indexes, config, index, idxs, idxPos, pages, page,
                    numResults, response, parsedResponse, results, pret >>
    /\ UNCHANGED << resultsSent, recordsSent, lastBatch, pageSends, pageErrs >>
    /\ UNCHANGED << histVars, getVars, doVars,
                    fileVars, sinkVars, lifeVars >>

\* the request of the next page, up to the send of its error
FP_Fetch ==
    /\ pc = "fp_page" /\ page < pages
    /\ attempted' = attempted \cup {<< index, page >>}
    /\ pageSends' = 0 /\ pageErrs' = 0
    /\ \E e \in PageEnds :
        LET g == GetReturn(e) IN
        /\ httpEnd' = e
        /\ IF g.panic THEN
                /\ pc' = "panic" /\ crash' = "nil response"
                /\ UNCHANGED response
           ELSE
                /\ response' = g.data
                /\ pc' = IF g.err THEN "fp_sendReqErr" ELSE "fp_parse"
                /\ UNCHANGED crash
    /\ UNCHANGED << op, indexes, config, index, idxs, idxPos, pages, page,
                    numResults, parsedResponse, results, pret >>
    /\ UNCHANGED << upPages, fetched, upstream, failure, counts >>
    /\ UNCHANGED << resultsSent, recordsSent, errorsSent, lastBatch >>
    /\ UNCHANGED << getVars, doVars,
                    fileVars, sinkVars, lifeVars >>

\* the pages of the snapshot are through: on to the next snapshot
FP_NextSnapshot ==
    /\ pc = "fp_page" /\ ~(page < pages)
    /\ idxPos' = idxPos + 1
    /\ pc' = "fp_snapshot"
    /\ UNCHANGED << op, crash, indexes, config, index, idxs, pages, page,
                    numResults, response, parsedResponse, results, pret >>
    /\ UNCHANGED << histVars, chanVars, getVars, doVars,
                    fileVars, sinkVars, lifeVars >>

\* errors <- "[FetchPages] Request error"
FP_SendReqErr ==
    /\ pc = "fp_sendReqErr"
    /\ errorsSent' = errorsSent + 1 /\ pageErrs' = pageErrs + 1
    /\ pc' = "fp_parse"
    /\ UNCHANGED << op, crash, indexes, config, index, idxs, idxPos, pages, page,
                    numResults, response, parsedResponse, results, pret >>
    /\ UNCHANGED << resultsSent, recordsSent, lastBatch, pageSends >>
    /\ UNCHANGED << histVars, getVars, doVars,
                    fileVars, sinkVars, lifeVars >>

\* cc.ParseResponse(response), up to the send of its error or of the batch
FP_Parse ==
    /\ pc = "fp_parse"
    /\ LET p == ParseResponse(response) IN
        /\ parsedResponse' = [isNil |-> p.isNil, recs |-> p.recs]
        /\ IF p.err # "nil" THEN
                /\ pc' = "fp_sendParseErr"
                /\ UNCHANGED numResults
           ELSE
                /\ numResults' = numResults + Len(p.recs)
                /\ pc' = "fp_sendResults"
    /\ UNCHANGED << op, crash, indexes, config, index, idxs, idxPos, pages, page,
                    response, results, pret >>
    /\ UNCHANGED << histVars, chanVars, getVars, doVars,
                    fileVars, sinkVars, lifeVars >>

\* errors <- "[FetchPages] Cannot parse response"
FP_SendParseErr ==
    /\ pc = "fp_sendParseErr"
    /\ errorsSent' = errorsSent + 1 /\ pageErrs' = pageErrs + 1
    /\ numResults' = numResults + Len(parsedResponse.recs)
    /\ pc' = "fp_sendResults"
    /\ UNCHANGED << op, crash, indexes, config, index, idxs, idxPos, pages, page,
                    response, parsedResponse, results, pret >>
    /\ UNCHANGED << resultsSent, recordsSent, lastBatch, pageSends >>
    /\ UNCHANGED << histVars, getVars, doVars,
                    fileVars, sinkVars, lifeVars >>

\* FetchPages holds no close(results) and no close(errors): a return leaves
\* a channel as it is.
\* (a faulty variant first: the return closes the channel)
ReturnCloses(ch) == "closed by FetchPages"
ReturnLeaves(ch) == ch

\* results <- parsedResponse, then the limit: return, or the next page.
\* This is the sender's side; the send completes when a receiver takes it.
FP_SendResultsCore ==
    /\ pc = "fp_sendResults"
    /\ resultsSent' = resultsSent + 1 /\ pageSends' = pageSends + 1
    /\ recordsSent' = recordsSent + Len(parsedResponse.recs)
    /\ lastBatch' = parsedResponse
    /\ IF LimitReached(numResults, config.Limit)
       THEN /\ pc' = "returned" /\ UNCHANGED page
            /\ resultsCh' = ReturnLeaves(resultsCh)
            /\ errorsCh' = ReturnLeaves(errorsCh)
       ELSE /\ pc' = "fp_page" /\ page' = page + 1
            /\ UNCHANGED lifeVars
    /\ UNCHANGED << op, crash, indexes, config, index, idxs, idxPos, pages,
                    numResults, response, parsedResponse, results, pret >>
    /\ UNCHANGED << errorsSent, pageErrs >>
    /\ UNCHANGED << histVars, getVars, doVars, fileVars >>

\* the send with a receiver that is not modelled: it is taken at once
FP_SendResults == FP_SendResultsCore /\ UNCHANGED sinkVars

\* the snapshots are through: FetchPages returns
FP_Return ==
    /\ pc = "fp_snapshot" /\ ~(idxPos <= Len(idxs))
    /\ pc' = "returned"
    /\ resultsCh' = ReturnLeaves(resultsCh)
    /\ errorsCh' = ReturnLeaves(errorsCh)
    /\ UNCHANGED << op, crash, indexes, config, index, idxs, idxPos, pages, page,
                    numResults, response, parsedResponse, results, pret >>
    /\ UNCHANGED << histVars, chanVars, getVars, doVars, fileVars, sinkVars >>

\* ------------------------------------------------- the provider's program
Init ==
    /\ pc = "new" /\ ProvRest /\ GetIdle /\ DoIdle
    /\ FileIdle /\ SinkIdle /\ ChansOpen

Next ==
    \/ New
    \/ CallGetNumPages
    \/ CallGetPages \/ GPI_Count \/ GPI_Page \/ GPI_Return
    \/ CallFetchPages \/ FP_Snapshot \/ FP_SendCountErr \/ FP_Fetch
    \/ FP_NextSnapshot \/ FP_SendReqErr \/ FP_Parse \/ FP_SendParseErr
    \/ FP_SendResults \/ FP_Return

Spec == Init /\ [][Next]_vars

\* --------------------------------------------------- CommonCrawl.GetFile
CRAWL_STORAGE == "https://data.commoncrawl.org/"

\* decimal text: the digit characters, and the value of a digit string
Digits == << "0", "1", "2", "3", "4", "5", "6", "7", "8", "9" >>
IsDigit(c) == \E d \in 1..10 : Digits[d] = c
DigitVal(c) == (CHOOSE d \in 1..10 : Digits[d] = c) - 1
RECURSIVE DecVal(_)
DecVal(ds) ==
    IF ds = << >> THEN 0
    ELSE 10 * DecVal(SubSeq(ds, 1, Len(ds) - 1)) + DigitVal(ds[Len(ds)])

\* strconv.Atoi(s): an optional sign and decimal digits.  A syntax error
\* gives 0, a value out of int's range gives the nearest int; both come with
\* an error.
Atoi(s) ==
    LET signed == s # << >> /\ s[1] \in {"+", "-"}
        ds == IF signed THEN Tail(s) ELSE s
    IN  IF ds = << >> \/ \E j \in 1..Len(ds) : ~IsDigit(ds[j])
        THEN [val |-> 0, err |-> TRUE]
        ELSE LET v == IF signed /\ s[1] = "-" THEN 0 - DecVal(ds) ELSE DecVal(ds) IN
             IF v > IntMax THEN [val |-> IntMax, err |-> TRUE]
             ELSE IF v < 0 - IntMax - 1 THEN [val |-> 0 - IntMax - 1, err |-> TRUE]
             ELSE [val |-> v, err |-> FALSE]

\* an int printed with %v
RECURSIVE ItoaNat(_)
ItoaNat(n) ==
    IF n < 10 THEN << Digits[n + 1] >>
    ELSE ItoaNat(n \div 10) \o << Digits[(n % 10) + 1] >>
Itoa(n) == IF n < 0 THEN << "-" >> \o ItoaNat(0 - n) ELSE ItoaNat(n)

\* int arithmetic wraps around
WrapInt(x) == ((x + IntMax + 1) % (2 * (IntMax + 1))) - (IntMax + 1)

\* (a faulty variant first: the range ends at offset + length)
OffsetEndNoMarker(offset, length) == WrapInt(offset + length)
\* offsetEnd := offset + length + 1
OffsetEnd(offset, length) == WrapInt(WrapInt(offset + length) + 1)

\* fmt.Sprintf("bytes=%v-%v", page.Offset, offsetEnd); the errors of the two
\* Atoi calls are dropped
RangeValue(c) ==
    << "bytes=" >> \o c.Offset \o << "-" >>
        \o Itoa(OffsetEnd(Atoi(c.Offset).val, Atoi(c.Length).val))

\* the records GetFile is given: Offset and Length are text from the index
\* server, digits or not
NumChars == {"0", "1", "9", "-", "x"}
NumStrings == UNION { [1..n -> NumChars] : n \in 0..MaxDigits }
Filenames == {"crawl-data/segment.warc.gz"}
CdxRecords == [Offset : NumStrings, Length : NumStrings, Filename : Filenames]

\* What the WARC reader makes of the bytes received: no container
\* (warc.NewReader fails), no record (ReadRecord fails), or a record whose
\* content reads completely or breaks off.
WarcOutcomes ==
    { [kind |-> "no container", content |-> << >>],
      [kind |-> "no record", content |-> << >>],
      [kind |-> "content breaks off", content |-> << >>],
      [kind |-> "ok", content |-> << "w" >>] }

\* the statements of GetFile after common.DoRequest returned d
GetFileResult(d, w) ==
    IF d.err # "nil"
    THEN [data |-> << >>, isNil |-> TRUE, err |-> "[GetFile] Request error"]
    ELSE IF Len(d.data) = 0 \/ w.kind \in {"no container", "no record"}
    THEN [data |-> << >>, isNil |-> TRUE, err |-> "[GetFile] Cannot decode WARC"]
    ELSE IF w.kind = "content breaks off"
    THEN [data |-> w.content, isNil |-> FALSE, err |-> "read error"]
    ELSE [data |-> w.content, isNil |-> FALSE, err |-> "nil"]

InitGetFile ==
    /\ fpc = "call" /\ cdx \in CdxRecords /\ fret = NoFret
    /\ GetIdle /\ DoIdle /\ ProvIdle /\ SinkIdle /\ ChansOpen

\* the whole function: the range, the one request, the WARC record
GetFileCall ==
    /\ fpc = "call"
    /\ request' = [url |-> << CRAWL_STORAGE, cdx.Filename >>,
                   timeout |-> MaxTimeout,
                   headers |-> << << "Range", RangeValue(cdx) >> >>]
    /\ \E o \in DoOutcomes, w \in WarcOutcomes :
        /\ dout' = o
        /\ dret' = DoRequest(o)
        /\ fret' = GetFileResult(DoRequest(o), w)
    /\ doAttempts' = doAttempts + 1
    /\ fpc' = "returned"
    /\ UNCHANGED << dpc, cdx, getVars, provVars, sinkVars, lifeVars >>

NextGetFile == GetFileCall

SpecGetFile == InitGetFile /\ [][NextGetFile]_vars

\* ------------------------------------------------- filterIndices, alone
\* The catalogs a provider can hold: the server's list, in its order, every
\* snapshot with its own From and To (non-zero times); Id is the position.
FilterCatalogs ==
    UNION { [1..n -> [From : 1..MaxDate, To : 1..MaxDate]] : n \in 0..MaxIdx }
WithIds(cat) ==
    [k \in 1..Len(cat) |-> [Id |-> k, From |-> cat[k].From, To |-> cat[k].To]]

InitFilter ==
    /\ pc = "filter" /\ op = "filterIndices" /\ crash = "none"
    /\ \E cat \in FilterCatalogs : indexes = WithIds(cat)
    /\ config \in [SinglePage : {FALSE}, Limit : {0}, FromDate : Dates, ToDate : Dates]
    /\ index = 0 /\ idxs = << >> /\ idxPos = 0
    /\ pages = 0 /\ page = 0 /\ numResults = 0 /\ response = << >>
    /\ parsedResponse = NilBatch /\ results = << >> /\ pret = NoPret
    /\ httpEnd = NoEnd /\ upPages = 0 /\ fetched = << >> /\ upstream = << >>
    /\ failure = NoFailure /\ attempted = {} /\ counts = << >>
    /\ resultsSent = 0 /\ recordsSent = 0 /\ errorsSent = 0
    /\ lastBatch = NilBatch /\ pageSends = 0 /\ pageErrs = 0
    /\ GetIdle /\ DoIdle /\ FileIdle /\ SinkIdle /\ ChansOpen

\* one call of cc.filterIndices(config)
CallFilterIndices ==
    /\ pc = "filter"
    /\ LET f == filterIndices(config, indexes) IN
        IF f.panic THEN
            /\ pc' = "panic" /\ crash' = "index out of range"
            /\ UNCHANGED idxs
        ELSE
            /\ idxs' = f.ids /\ pc' = "filtered"
            /\ UNCHANGED crash
    /\ UNCHANGED << op, indexes, config, index, idxPos, pages, page, numResults,
                    response, parsedResponse, results, pret >>
    /\ UNCHANGED << histVars, chanVars, getVars, doVars,
                    fileVars, sinkVars, lifeVars >>

NextFilter == CallFilterIndices

SpecFilter == InitFilter /\ [][NextFilter]_vars

\* ------------------------------------------------- ParseResponse, alone
\* every byte sequence up to MaxBody bytes
Bodies == UNION { [1..n -> Bytes] : n \in 0..MaxBody }

InitParse ==
    /\ pc = "parse" /\ op = "ParseResponse" /\ crash = "none"
    /\ response \in Bodies
    /\ indexes = << >> /\ config = NoConfig
    /\ index = 0 /\ idxs = << >> /\ idxPos = 0
    /\ pages = 0 /\ page = 0 /\ numResults = 0
    /\ parsedResponse = NilBatch /\ results = << >> /\ pret = NoPret
    /\ httpEnd = NoEnd /\ upPages = 0 /\ fetched = << >> /\ upstream = << >>
    /\ failure = NoFailure /\ attempted = {} /\ counts = << >>
    /\ resultsSent = 0 /\ recordsSent = 0 /\ errorsSent = 0
    /\ lastBatch = NilBatch /\ pageSends = 0 /\ pageErrs = 0
    /\ GetIdle /\ DoIdle /\ FileIdle /\ SinkIdle /\ ChansOpen

\* one call of cc.ParseResponse(response)
CallParseResponse ==
    /\ pc = "parse"
    /\ LET p == ParseResponse(response) IN
        /\ parsedResponse' = [isNil |-> p.isNil, recs |-> p.recs]
        /\ pret' = [results |-> p.recs, n |-> 0, err |-> p.err]
    /\ pc' = "parsed"
    /\ UNCHANGED << op, crash, indexes, config, index, idxs, idxPos, pages, page,
                    numResults, response, results >>
    /\ UNCHANGED << histVars, chanVars, getVars, doVars,
                    fileVars, sinkVars, lifeVars >>

NextParse == CallParseResponse

SpecParse == InitParse /\ [][NextParse]_vars

\* ------------------------------- FetchPages, SaveFiles and the error reader
\* The program the package is made for: FetchPages runs as the producer on a
\* constructed provider, SaveFiles ranges over the results channel, a reader
\* ranges over the error channel, and the caller closes results once
\* FetchPages has returned.  Both channels are unbuffered: a send and its
\* receive are one step.  The error reader does nothing but receive, so it is
\* at its receive whenever an error is sent, and a send on the error channel
\* is taken at once.  A panic ends the whole process.
\* The calls: no date, or the from-date that selects the two newest
\* snapshots of the catalog; no limit, or the largest.
PipeConfigs ==
    {c \in Configs : /\ c.ToDate = 0 /\ c.FromDate \in {0, MaxIdx - 1}
                     /\ c.Limit \in {0, MaxLimit}}

InitPipe ==
    /\ pc = "fp_snapshot" /\ op = "FetchPages" /\ crash = "none"
    /\ indexes = CatalogOf(MaxIdx)
    /\ config \in PipeConfigs
    /\ idxs = filterIndices(config, indexes).ids /\ idxPos = 1
    /\ index = 0 /\ pages = 0 /\ page = 0 /\ numResults = 0 /\ response = << >>
    /\ parsedResponse = NilBatch /\ results = << >> /\ pret = NoPret
    /\ httpEnd = NoEnd /\ upPages = 0 /\ fetched = << >> /\ upstream = << >>
    /\ failure = NoFailure /\ attempted = {} /\ counts = << >>
    /\ resultsSent = 0 /\ recordsSent = 0 /\ errorsSent = 0
    /\ lastBatch = NilBatch /\ pageSends = 0 /\ pageErrs = 0
    /\ spc = "s_recv" /\ SinkRest
    /\ GetIdle /\ DoIdle /\ FileIdle /\ ChansOpen

\* for resBatch := range results: the receiver's side of a send of b; a nil
\* batch is ranged over zero times
SinkReceive(b) ==
    /\ spc = "s_recv"
    /\ received' = received + 1
    /\ resBatch' = b.recs /\ resPos' = 1 /\ gfLog' = << >>
    /\ spc' = IF b.recs = << >> THEN "s_recv" ELSE "s_file"

\* results <- parsedResponse meets the sink's receive
PipeSendResults == FP_SendResultsCore /\ SinkReceive(parsedResponse)

\* (a faulty variant first: a failure ends the range over the batch)
AfterFailureBreak(pos, n) == n + 1
\* continue, or the end of the loop body: on to the next record
AfterFailure(pos, n) == pos + 1

\* What the body of the record loop meets on one record: the first of
\* GetFile, mime.ExtensionsByType and SaveFile that fails, or none.
RecordFail(g, extOk, saveOk) ==
    IF g.err # "nil" THEN "GetFile"
    ELSE IF ~extOk THEN "extension"
    ELSE IF ~saveOk THEN "SaveFile"
    ELSE "none"
RecordFails ==
    { RecordFail(GetFileResult(DoRequest(o), w), extOk, saveOk) :
        o \in DoOutcomes, w \in WarcOutcomes, extOk \in BOOLEAN, saveOk \in BOOLEAN }

\* the body of the record loop up to the send of an error: GetFile, the
\* extension of the MIME type, SaveFile and the pause
SinkFile ==
    /\ pc # "panic" /\ spc = "s_file"
    /\ \E fail \in RecordFails :
        /\ gfLog' = Append(gfLog, [res |-> resBatch[resPos], fail |-> fail, errs |-> 0])
        /\ IF fail = "none"
           THEN /\ resPos' = resPos + 1
                /\ spc' = IF resPos' > Len(resBatch) THEN "s_recv" ELSE "s_file"
           ELSE /\ spc' = "s_sendErr"
                /\ UNCHANGED resPos
    /\ UNCHANGED << received, resBatch, provVars, getVars, doVars, fileVars, lifeVars >>

\* errors <- err, taken by the error reader; then the next record
SinkSendErr ==
    /\ pc # "panic" /\ spc = "s_sendErr"
    /\ gfLog' = [gfLog EXCEPT ![Len(gfLog)].errs = @ + 1]
    /\ resPos' = AfterFailure(resPos, Len(resBatch))
    /\ spc' = IF resPos' > Len(resBatch) THEN "s_recv" ELSE "s_file"
    /\ UNCHANGED << received, resBatch, provVars, getVars, doVars, fileVars, lifeVars >>

\* the range over results ends when the channel is closed: SaveFiles returns
SinkReturn ==
    /\ pc # "panic" /\ spc = "s_recv" /\ resultsCh # "open"
    /\ spc' = "s_done"
    /\ UNCHANGED << received, resBatch, resPos, gfLog >>
    /\ UNCHANGED << provVars, getVars, doVars, fileVars, lifeVars >>

\* the caller: close(results) after FetchPages has returned
CallerClose ==
    /\ pc = "returned" /\ resultsCh = "open"
    /\ resultsCh' = "closed by caller"
    /\ UNCHANGED << errorsCh, provVars, getVars, doVars, fileVars, sinkVars >>

Producer ==
    \/ FP_Snapshot \/ FP_SendCountErr \/ FP_Fetch \/ FP_NextSnapshot
    \/ FP_SendReqErr \/ FP_Parse \/ FP_SendParseErr \/ PipeSendResults
    \/ FP_Return
Sink == SinkFile \/ SinkSendErr \/ SinkReturn

NextPipe == Producer \/ Sink \/ CallerClose

\* Every goroutine that can take a step is scheduled, every network call
\* returns, and the error reader keeps receiving.
SpecPipe ==
    /\ InitPipe /\ [][NextPipe]_vars
    /\ WF_vars(Producer) /\ WF_vars(Sink) /\ WF_vars(CallerClose)

\* ======================================================== common.Get claims
GetDone == gpc \in {"returned", "panic"}
\* an attempt that is error-free with HTTP 200
Succeeded(o) == o.kind = "resp" /\ o.status = 200
NoneSucceeded == \A k \in 1..Len(attempts) : ~Succeeded(attempts[k])

\* C1 (as claimed): with maxRetries >= 1 and no successful attempt, Get makes
\* exactly maxRetries attempts and returns the body or error of the last one;
\* after a last attempt without response it returns an error and does not crash.
C1_ExhaustedReturnsLast ==
    (GetDone /\ maxRetries >= 1 /\ NoneSucceeded) =>
        /\ Len(attempts) = maxRetries
        /\ gpc = "returned"
        /\ LET last == attempts[maxRetries] IN
            IF last.kind = "resp"
            THEN ret.data = last.body /\ ret.err = last.readErr
            ELSE ret.err

\* C2: when attempts 1..n-1 fail and attempt n is error-free with status 200,
\* Get makes exactly n attempts, sleeps k seconds after failed attempt k
\* (k = 1..n-1, nothing after attempt n) and returns the body of attempt n
\* (with an error only if reading that body failed).
C2_FirstSuccessAtN ==
    \A n \in 1..maxRetries :
        ( /\ GetDone
          /\ Len(attempts) >= n
          /\ Succeeded(attempts[n])
          /\ \A k \in 1..(n - 1) : ~Succeeded(attempts[k]) ) =>
            /\ Len(attempts) = n
            /\ sleeps = [k \in 1..(n - 1) |-> k]
            /\ gpc = "returned"
            /\ ret.data = attempts[n].body
            /\ ret.err = attempts[n].readErr

C2_Witness ==
    /\ gpc = "returned" /\ Len(attempts) = 3 /\ Succeeded(attempts[3])
    /\ attempts[3].body # << >> /\ ~attempts[3].readErr
    /\ attempts[1].kind = "err" /\ attempts[2].kind = "resp"

\* C3 (as claimed): when Get returns after all maxRetries attempts and the
\* last attempt was a transport error or a non-200 status, the returned
\* error is non-nil.
C3_FailureSurfaced ==
    ( /\ gpc = "returned" /\ maxRetries >= 1
      /\ Len(attempts) = maxRetries
      /\ ~Succeeded(attempts[maxRetries]) ) => ret.err

\* C19 (as claimed): called with maxRetries = 0, Get makes no attempt and
\* returns to its caller, with an error or an empty result; it does not
\* crash on the absent response.
C19_ZeroRetriesReturns ==
    (GetDone /\ maxRetries = 0) =>
        /\ attempts = << >>
        /\ gpc = "returned"
        /\ (ret.err \/ ret.data = << >>)

\* =================================================== common.DoRequest claims
DoGeneric(r) == r.err \notin {"nil", Status500Error, Status503Error}

\* C10 (as claimed): one attempt; transport error -> error without body;
\* 200 -> the body without error; 503 -> Status503Error with the body;
\* 500 -> Status500Error without body; another status with an empty body ->
\* a generic error without body.
C10_Classification ==
    dpc = "returned" =>
        /\ doAttempts = 1
        /\ dout.kind = "err" => (DoGeneric(dret) /\ dret.isNil)
        /\ (dout.kind = "resp" /\ dout.status = 200) =>
                (dret.err = "nil" /\ dret.data = dout.body)
        /\ (dout.kind = "resp" /\ dout.status = 503) =>
                (dret.err = Status503Error /\ dret.data = dout.body
                 /\ dret.isNil = dout.bodyNil)
        /\ (dout.kind = "resp" /\ dout.status = 500) =>
                (dret.err = Status500Error /\ dret.isNil)
        /\ (dout.kind = "resp" /\ dout.status \notin {200, 500, 503}
                /\ dout.body = << >>) => (DoGeneric(dret) /\ dret.isNil)

\* C10 (amended): as above, but 200 yields the body without error only when
\* the response has a body object (empty or not); a 200 response whose body
\* is absent (nil) yields the "Response body is empty" error and no body.
C10_ClassificationAmended ==
    dpc = "returned" =>
        /\ doAttempts = 1
        /\ dout.kind = "err" => (DoGeneric(dret) /\ dret.isNil)
        /\ (dout.kind = "resp" /\ dout.status = 200 /\ ~dout.bodyNil) =>
                (dret.err = "nil" /\ dret.data = dout.body /\ ~dret.isNil)
        /\ (dout.kind = "resp" /\ dout.status = 200 /\ dout.bodyNil) =>
                (dret.err = "Response body is empty" /\ dret.isNil)
        /\ (dout.kind = "resp" /\ dout.status = 503) =>
                (dret.err = Status503Error /\ dret.data = dout.body
                 /\ dret.isNil = dout.bodyNil)
        /\ (dout.kind = "resp" /\ dout.status = 500) =>
                (dret.err = Status500Error /\ dret.isNil)
        /\ (dout.kind = "resp" /\ dout.status \notin {200, 500, 503}
                /\ dout.body = << >>) => (DoGeneric(dret) /\ dret.isNil)

C10_Witness ==
    /\ dpc = "returned" /\ dout.kind = "resp" /\ dout.status = 503
    /\ dout.body # << >> /\ dret.data = dout.body

\* ====================================================== FetchPages claims
FPDone == op = "FetchPages" /\ pc \in {"returned", "panic"}
\* the record count over the batches sent has reached a non-zero limit
LimitHit == config.Limit # 0 /\ recordsSent >= config.Limit
\* the last page requested was fetched and is decodable NDJSON
PageSucceeded == ~FetchFailed(httpEnd) /\ WellFormed(httpEnd.body)
\* the records of a page body, as the provider hands them out
RecordsOf(body) ==
    [k \in 1..Len(Upstream(body)) |-> [key |-> Upstream(body)[k], Source |-> Provider]]
AllPagesAttempted ==
    /\ Len(counts) = Len(idxs)
    /\ \A k \in 1..Len(idxs) :
        \A q \in 0..(counts[k] - 1) : << idxs[k], q >> \in attempted

\* C4 (as claimed): no request error, decode error or page-count error ends
\* FetchPages: when the call is over and the limit was not reached, every
\* selected snapshot was visited and every page of its page count attempted.
C4_ErrorsNeverEndCall == (FPDone /\ ~LimitHit) => AllPagesAttempted

\* C5: with a non-zero limit, as soon as the records sent on the results
\* channel reach or exceed it FetchPages has returned, and from then on
\* nothing is sent on either channel and no page is fetched; with limit 0 it
\* returns only when the snapshots are through.
C5_LimitStops ==
    /\ [](op = "FetchPages" =>
            /\ LimitHit => pc = "returned"
            /\ (config.Limit = 0 /\ pc = "returned") => idxPos > Len(idxs))
    /\ [][(op = "FetchPages" /\ LimitHit) =>
            UNCHANGED << resultsSent, recordsSent, errorsSent, attempted >>]_vars

C5_Witness ==
    /\ op = "FetchPages" /\ pc = "returned"
    /\ config.Limit = 2 /\ recordsSent = 3 /\ resultsSent = 2
    /\ idxPos < Len(idxs)

\* C6: a page whose request and decoding both succeed causes exactly one send
\* on the results channel, carrying exactly that page's records in upstream
\* order; no page causes more than one send.
C6_OneBatchPerPage ==
    op = "FetchPages" =>
        /\ pageSends <= 1
        /\ (pc \in {"fp_page", "fp_snapshot", "returned"} /\ PageSucceeded) =>
            /\ pageSends = 1
            /\ ~lastBatch.isNil
            /\ lastBatch.recs = RecordsOf(httpEnd.body)

C6_Witness ==
    /\ op = "FetchPages" /\ pc = "fp_page" /\ PageSucceeded
    /\ resultsSent = 2 /\ recordsSent = 3 /\ Len(lastBatch.recs) = 2

\* C17 (as claimed): the results channel carries only batches of successfully
\* decoded pages: a page for which an error went to the error channel (its
\* request or its decoding failed) causes no send on the results channel, and
\* no batch sent is nil or empty.
C17_OnlyDecodedBatches ==
    (op = "FetchPages" /\ pageSends > 0) =>
        /\ pageErrs = 0
        /\ ~lastBatch.isNil
        /\ lastBatch.recs # << >>

\* C18 (as claimed): a failing page contributes exactly one error to the error
\* channel: after the error of a failed request no decode error follows for
\* the same page.
C18_OneErrorPerPage == op = "FetchPages" => pageErrs <= 1

\* =================================================== GetPagesIndex claims
GPDone == op = "GetPages" /\ pc \in {"returned", "panic"}
KeysOf(recs) == [k \in 1..Len(recs) |-> recs[k].key]

\* C7 (as claimed): a request or decode failure on page p ends the call with
\* the error and exactly the records of pages 0..p-1, no later page being
\* fetched; a failed page-count query ends it with the error, no records and
\* no page fetched.
C7_FailureAborts ==
    (GPDone /\ failure.kind # "none") =>
        /\ pc = "returned"
        /\ pret.err # "nil"
        /\ IF failure.kind = "count"
           THEN fetched = << >> /\ pret.results = << >>
           ELSE /\ fetched = [k \in 1..(failure.page + 1) |-> k - 1]
                /\ KeysOf(pret.results) = upstream

\* C8: GetPagesIndex fetches the pages 0, 1, 2, ... in this order; with a
\* non-zero limit no page is fetched once the accumulated records reach or
\* exceed it; with limit 0 a call that returns without error has fetched all
\* pageCount pages, pageCount being 1 for a single page and the page-count
\* endpoint's value otherwise.
C8_PagesInOrder ==
    op = "GetPages" =>
        /\ fetched = [k \in 1..Len(fetched) |-> k - 1]
        /\ (config.Limit # 0 /\ Len(results) >= config.Limit) =>
                pc \in {"gp_break", "returned"}
        /\ (pc = "returned" /\ config.Limit = 0 /\ pret.err = "nil") =>
                Len(fetched) = (IF config.SinglePage THEN 1 ELSE upPages)

C8_Witness ==
    /\ op = "GetPages" /\ pc = "returned" /\ pret.err = "nil"
    /\ ~config.SinglePage /\ config.Limit = 1 /\ Len(pret.results) = 2
    /\ fetched = << 0 >> /\ upPages = 2

\* ================================================================ New claim
NewSucceeded == pc \notin {"new", "failed"} /\ ~(pc = "panic" /\ op = "none")

\* C9 (as claimed): after a successful New the snapshot list is non-empty,
\* and no later operation fails to find the first snapshot.
C9_CatalogNonEmpty ==
    NewSucceeded => (indexes # << >> /\ crash # "index out of range")

\* ======================================================= filterIndices claim
\* The reference selection, snapshot by snapshot: a snapshot stays unless the
\* from-date is set and after the snapshot's start, or the to-date is set and
\* before the snapshot's end.
RECURSIVE RefSelect(_, _, _)
RefSelect(cat, from, to) ==
    IF cat = << >> THEN << >>
    ELSE LET s == Head(cat)
             keep == /\ ~(from # 0 /\ from > s.From)
                     /\ ~(to # 0 /\ to < s.To)
         IN (IF keep THEN << s.Id >> ELSE << >>) \o RefSelect(Tail(cat), from, to)

\* C11 (as claimed): for every catalog and every (fromDate, toDate),
\* filterIndices returns the one-element list of the first catalog snapshot
\* when both dates are unset, and otherwise the subsequence, in catalog
\* order, of the snapshots that neither date excludes.
C11_FilterIsReference ==
    pc \in {"filtered", "panic"} =>
        /\ pc = "filtered"
        /\ idxs = (IF config.FromDate = 0 /\ config.ToDate = 0
                   THEN << indexes[1].Id >>
                   ELSE RefSelect(indexes, config.FromDate, config.ToDate))

\* ======================================================= ParseResponse claim
\* The lines of a text: each line terminator ends a line, and bytes after the
\* last terminator are a last, unterminated line.
InputLines(text) ==
    IF text # << >> /\ text[Len(text)] = NL
    THEN SplitLines(SubSeq(text, 1, Len(text) - 1), << >>)
    ELSE SplitLines(text, << >>)

\* C13 (as claimed): ParseResponse is all-or-nothing: zero-length input gives
\* the empty-response error (no crash); if any line of the input is malformed
\* it gives an error and no records; otherwise it gives one record per input
\* line, in input order, each with Source set to the provider.
C13_AllOrNothing ==
    pc = "parsed" =>
        LET lines == InputLines(response) IN
        IF response = << >>
        THEN pret.err = "Empty response provided" /\ parsedResponse.isNil
        ELSE IF \E k \in 1..Len(lines) : ~LineDecodes(lines[k])
        THEN pret.err # "nil" /\ parsedResponse.isNil
        ELSE /\ pret.err = "nil" /\ ~parsedResponse.isNil
             /\ parsedResponse.recs =
                    [k \in 1..Len(lines) |-> [key |-> lines[k][1], Source |-> Provider]]

\* ============================================================ GetFile claim
\* a decimal string of a non-negative integer, its value, and the decimal
\* text of a natural number
IsDecimal(s) == s # << >> /\ \A j \in 1..Len(s) : IsDigit(s[j])
RECURSIVE ValueOf(_)
ValueOf(s) == IF s = << >> THEN 0 ELSE 10 * ValueOf(SubSeq(s, 1, Len(s) - 1)) + DigitVal(s[Len(s)])
RECURSIVE TextOf(_)
TextOf(n) == IF n < 10 THEN << Digits[n + 1] >> ELSE TextOf(n \div 10) \o TextOf(n % 10)
\* Range: bytes=<o>-<o+l+1>, sent once to the storage endpoint
RangeAsClaimed ==
    /\ doAttempts = 1
    /\ request.url = << CRAWL_STORAGE, cdx.Filename >>
    /\ request.headers =
        << << "Range", << "bytes=" >> \o cdx.Offset \o << "-" >>
                \o TextOf(ValueOf(cdx.Offset) + ValueOf(cdx.Length) + 1) >> >>

\* C12 (as claimed): for every record whose offset o and length l are decimal
\* strings of non-negative integers, GetFile issues exactly one single-attempt
\* request to the storage endpoint with header Range: bytes=<o>-<o+l+1>.
C12_RangeHeader ==
    (fpc = "returned" /\ IsDecimal(cdx.Offset) /\ IsDecimal(cdx.Length)) =>
        RangeAsClaimed

\* C12 (amended): the same for every record whose offset o and length l are
\* decimal strings of non-negative integers with o + l + 1 no larger than the
\* largest int.
C12_RangeHeaderInRange ==
    ( /\ fpc = "returned" /\ IsDecimal(cdx.Offset) /\ IsDecimal(cdx.Length)
      /\ ValueOf(cdx.Offset) + ValueOf(cdx.Length) + 1 <= IntMax ) =>
        RangeAsClaimed

C12_Witness ==
    /\ fpc = "returned" /\ cdx.Offset = << "1", "0" >> /\ cdx.Length = << "9" >>
    /\ request.headers = << << "Range", << "bytes=", "1", "0", "-", "2", "0" >> >> >>
    /\ fret.err = "nil"

\* ========================================================= pipeline claims
\* C14: FetchPages never closes the results channel or the error channel:
\* while it runs and when it has returned, by exhaustion or by the limit,
\* both are open until the caller closes results, and SaveFiles' range over
\* results ends only after the caller's close.
C14_NeverCloses ==
    /\ errorsCh = "open"
    /\ resultsCh \in {"open", "closed by caller"}
    /\ pc # "returned" => resultsCh = "open"
    /\ spc = "s_done" => resultsCh = "closed by caller"

C14_Witness ==
    /\ pc = "returned" /\ LimitHit /\ resultsSent = 2
    /\ resultsCh = "open" /\ errorsCh = "open" /\ spc = "s_recv"

RECURSIVE SumSeq(_)
SumSeq(ns) == IF ns = << >> THEN 0 ELSE Head(ns) + SumSeq(Tail(ns))

\* C15 (as claimed): with every network call returning and both channels
\* received from, FetchPages eventually returns, having attempted at most as
\* many pages as the page counts of the selected snapshots add up to.
C15_EventuallyReturns ==
    /\ <>(pc = "returned")
    /\ [](Cardinality(attempted) <= SumSeq(counts))

\* C16: every record of every batch SaveFiles receives is handed to GetFile
\* exactly once, in batch order, whatever failed on earlier records, and a
\* failure on a record puts exactly one error on the error channel.
C16_EveryRecordOnce ==
    /\ Len(gfLog) <= Len(resBatch)
    /\ \A j \in 1..Len(gfLog) : gfLog[j].res = resBatch[j]
    /\ spc \in {"s_recv", "s_done"} => Len(gfLog) = Len(resBatch)
    /\ spc = "s_file" => Len(gfLog) = resPos - 1
    /\ \A j \in 1..Len(gfLog) :
        IF j = Len(gfLog) /\ spc = "s_sendErr"
        THEN gfLog[j].fail # "none" /\ gfLog[j].errs = 0
        ELSE gfLog[j].errs = (IF gfLog[j].fail = "none" THEN 0 ELSE 1)

C16_Witness ==
    /\ spc = "s_recv" /\ Len(resBatch) = 2 /\ Len(gfLog) = 2
    /\ gfLog[1].fail = "GetFile" /\ gfLog[1].errs = 1
    /\ gfLog[2].fail = "none" /\ gfLog[2].res # gfLog[1].res

\* C20 (as claimed): in the composition no deadlock is reachable: in every
\* interleaving FetchPages returns, every batch it sent was received by
\* SaveFiles, and SaveFiles returns.
C20_PipelineCompletes ==
    <>[](pc = "returned" /\ spc = "s_done" /\ received = resultsSent)

====
